---- MODULE Spec2Model ----
(***************************************************************************)
(* Model of the CloudGPT RP character-creation core:                       *)
(*   - generateImage            (utils/image generation client)           *)
(*   - handleSubmit             (components/CreateCharacterModal.tsx)      *)
(* JavaScript strings are sequences of one-character strings, so that      *)
(* String.prototype.trim and the trailing-slash regular expression are     *)
(* computed, not assumed.                                                  *)
(***************************************************************************)
EXTENDS Integers, Sequences, FiniteSets, TLC

(***************************************************************************)
(* Bounds of the model.                                                    *)
(***************************************************************************)
\* largest number of trailing "/" appended to a base URL
MaxSlashes == 2
\* largest number of result items in a response's data array
MaxItems == 2
\* largest value of the wall clock (Date.now) in a behaviour
MaxClock == 2
\* most setTimeout callbacks of handleSubmit waiting at one time
MaxTimers == 2

(***************************************************************************)
(* JavaScript values.                                                      *)
(***************************************************************************)
\* a property that is not there (undefined)
Absent == "<absent>"

\* a field of the options object: undefined, a truthy non-string (a number),
\* or a string
Undefined == [kind |-> "undefined", chars |-> <<>>]
NonString == [kind |-> "number", chars |-> <<>>]
Str(s) == [kind |-> "string", chars |-> s]

IsWhitespace(c) == c = " "

RECURSIVE TrimStart(_)
TrimStart(s) ==
    IF s = <<>> THEN <<>>
    ELSE IF IsWhitespace(Head(s)) THEN TrimStart(Tail(s))
    ELSE s

RECURSIVE TrimEnd(_)
TrimEnd(s) ==
    IF s = <<>> THEN <<>>
    ELSE IF IsWhitespace(s[Len(s)]) THEN TrimEnd(SubSeq(s, 1, Len(s) - 1))
    ELSE s

\* String.prototype.trim
Trim(s) == TrimEnd(TrimStart(s))

\* JavaScript truthiness of an options field: undefined and "" are falsy
Falsy(v) == v.kind = "undefined" \/ (v.kind = "string" /\ v.chars = <<>>)

\* truthiness of a JSON property that is absent, "" or a non-empty string
Truthy(x) == x # Absent /\ x # ""

(***************************************************************************)
(* ImageGenerationResult                                                   *)
(***************************************************************************)
Failure(msg) ==
    [success |-> FALSE, imageUrl |-> Absent, imageData |-> Absent, error |-> msg]

UrlSuccess(url) ==
    [success |-> TRUE, imageUrl |-> url, imageData |-> Absent, error |-> Absent]

DataSuccess(b64) ==
    [success |-> TRUE, imageUrl |-> Absent, imageData |-> b64, error |-> Absent]

NoResult == [success |-> FALSE, imageUrl |-> Absent, imageData |-> Absent, error |-> Absent]

\* the catch block without its fallback message
CatchResultNoFallback(message) == Failure(message)
\* catch (error) { return {success: false, error: error.message || "Failed to generate image"} }
CatchResult(message) ==
    Failure(IF message = "" THEN "Failed to generate image" ELSE message)

(***************************************************************************)
(* Input validation of generateImage: the three checks in source order.    *)
(* A truthy non-string has no trim method: the call raises a TypeError     *)
(* inside the try block, which the catch turns into a failure result.      *)
(***************************************************************************)
Pass == [outcome |-> "pass", result |-> NoResult]
Return(r) == [outcome |-> "return", result |-> r]

\* a check that forgets to trim
CheckFieldNoTrim(v, requiredMsg, typeErrorMsg, rest) ==
    IF Falsy(v) THEN Return(Failure(requiredMsg))
    ELSE IF v.kind # "string" THEN Return(CatchResult(typeErrorMsg))
    ELSE rest

CheckField(v, requiredMsg, typeErrorMsg, rest) ==
    IF Falsy(v) THEN Return(Failure(requiredMsg))
    ELSE IF v.kind # "string" THEN Return(CatchResult(typeErrorMsg))
    ELSE IF Trim(v.chars) = <<>> THEN Return(Failure(requiredMsg))
    ELSE rest

Validate(opts) ==
    CheckField(opts.prompt, "Image prompt is required", "prompt.trim is not a function",
      CheckField(opts.apiKey, "API key is required", "apiKey.trim is not a function",
        CheckField(opts.baseUrl, "API base URL is required", "baseUrl.trim is not a function",
          Pass)))

(***************************************************************************)
(* Endpoint construction.                                                  *)
(***************************************************************************)
\* the fixed sub-path, kept as one token
GenerationsPath == <<"/images/generations">>

\* baseUrl.replace(/\/$/, ""): one trailing slash only
StripOneTrailingSlash(s) ==
    IF s # <<>> /\ s[Len(s)] = "/" THEN SubSeq(s, 1, Len(s) - 1) ELSE s

\* baseUrl.replace(/\/+$/, "")
RECURSIVE StripTrailingSlashes(_)
StripTrailingSlashes(s) ==
    IF s # <<>> /\ s[Len(s)] = "/"
    THEN StripTrailingSlashes(SubSeq(s, 1, Len(s) - 1))
    ELSE s

EndpointOfSingleStrip(baseUrl) == StripOneTrailingSlash(baseUrl) \o GenerationsPath
EndpointOf(baseUrl) == StripTrailingSlashes(baseUrl) \o GenerationsPath

(***************************************************************************)
(* What the remote service and the transport can do.                       *)
(***************************************************************************)
\* response.ok is true for the statuses 200..299
Statuses == {200, 401, 500}
IsOk(status) == status >= 200 /\ status <= 299

StatusMessage(status) ==
    CASE status = 200 -> "API request failed with status 200"
      [] status = 401 -> "API request failed with status 401"
      [] status = 500 -> "API request failed with status 500"

\* fetch settles with a response head, or rejects with an error whose
\* message may be empty
FetchOutcomes ==
    [kind : {"reject"}, status : {0}, message : {"", "Failed to fetch"}]
      \cup [kind : {"response"}, status : Statuses, message : {""}]

\* one element of the data array: null, or an object with optional fields
NullItem == [isNull |-> TRUE, url |-> Absent, b64_json |-> Absent]
UrlAtoms == {Absent, "", "https://img/1", "https://img/2"}
B64Atoms == {Absent, "", "aGk="}
Items ==
    [isNull : {FALSE}, url : UrlAtoms, b64_json : B64Atoms] \cup {NullItem}

RECURSIVE SeqsUpTo(_, _)
SeqsUpTo(S, n) ==
    IF n = 0 THEN {<<>>}
    ELSE LET shorter == SeqsUpTo(S, n - 1)
         IN shorter \cup {Append(q, x) : q \in {r \in shorter : Len(r) = n - 1}, x \in S}

\* a response body: not JSON, the JSON value null, or a JSON object that
\* may carry error.message and may carry a data array
ErrorMessages == {Absent, "", "Rate limit exceeded"}
NonJsonBody == [kind |-> "nonjson", message |-> Absent, hasData |-> FALSE, items |-> <<>>]
NullBody == [kind |-> "null", message |-> Absent, hasData |-> FALSE, items |-> <<>>]
ErrorBodies ==
    {NonJsonBody, NullBody}
      \cup [kind : {"object"}, message : ErrorMessages, hasData : {FALSE}, items : {<<>>}]
SuccessBodies ==
    {NonJsonBody, NullBody}
      \cup [kind : {"object"}, message : {Absent}, hasData : {FALSE}, items : {<<>>}]
      \cup [kind : {"object"}, message : {Absent}, hasData : {TRUE},
            items : SeqsUpTo(Items, MaxItems)]

NoOutcome == [kind |-> "none", status |-> 0, message |-> ""]
NoBody == [kind |-> "none", message |-> Absent, hasData |-> FALSE, items |-> <<>>]

(***************************************************************************)
(* The two body-reading branches of generateImage.                         *)
(***************************************************************************)
\* if (!response.ok) { errorData = await response.json().catch(() => ({}));
\*   errorMessage = errorData.error?.message || `API request failed ...` }
ErrorResult(status, body) ==
    CASE body.kind = "nonjson" -> Failure(StatusMessage(status))
      [] body.kind = "null" ->
           CatchResult("Cannot read properties of null (reading 'error')")
      [] body.kind = "object" ->
           Failure(IF Truthy(body.message) THEN body.message ELSE StatusMessage(status))

\* variants of the extraction: any item's url, inline before url, no check
\* of the url field
ExtractAnyItem(body) ==
    IF body.kind # "object" THEN CatchResult("Unexpected response")
    ELSE IF \E i \in 1..Len(body.items) : Truthy(body.items[i].url)
    THEN UrlSuccess(body.items[CHOOSE i \in 1..Len(body.items) : Truthy(body.items[i].url)].url)
    ELSE IF \E i \in 1..Len(body.items) : Truthy(body.items[i].b64_json)
    THEN DataSuccess(body.items[CHOOSE i \in 1..Len(body.items) : Truthy(body.items[i].b64_json)].b64_json)
    ELSE Failure("No image data in response")
ExtractInlineFirst(body) ==
    IF body.kind # "object" THEN CatchResult("Unexpected response")
    ELSE IF body.hasData /\ Len(body.items) > 0 /\ ~body.items[1].isNull
            /\ Truthy(body.items[1].b64_json)
    THEN DataSuccess(body.items[1].b64_json)
    ELSE IF body.hasData /\ Len(body.items) > 0 /\ ~body.items[1].isNull
            /\ Truthy(body.items[1].url)
    THEN UrlSuccess(body.items[1].url)
    ELSE Failure("No image data in response")
ExtractNoUrlCheck(body) ==
    IF body.kind # "object" THEN CatchResult("Unexpected response")
    ELSE IF body.hasData /\ Len(body.items) > 0
    THEN UrlSuccess(body.items[1].url)
    ELSE Failure("No image data in response")
\* data = await response.json(); then the url / b64_json / else chain
ExtractResult(body) ==
    CASE body.kind = "nonjson" -> CatchResult("Unexpected token < in JSON at position 0")
      [] body.kind = "null" ->
           CatchResult("Cannot read properties of null (reading 'data')")
      [] body.kind = "object" ->
           IF body.hasData /\ Len(body.items) > 0
           THEN IF body.items[1].isNull
                THEN CatchResult("Cannot read properties of null (reading 'url')")
                ELSE IF Truthy(body.items[1].url)
                THEN UrlSuccess(body.items[1].url)
                ELSE IF Truthy(body.items[1].b64_json)
                THEN DataSuccess(body.items[1].b64_json)
                ELSE Failure("No image data in response")
           ELSE Failure("No image data in response")

(***************************************************************************)
(* Inputs of generateImage.                                                *)
(***************************************************************************)
RECURSIVE Slashes(_)
Slashes(k) == IF k = 0 THEN <<>> ELSE <<"/">> \o Slashes(k - 1)

PromptInputs == {Undefined, NonString, Str(<<>>), Str(<<" ">>), Str(<<" ", "a", " ">>)}
ApiKeyInputs == {Undefined, NonString, Str(<<>>), Str(<<" ", " ">>), Str(<<"k">>)}
BaseUrlCores == {<<>>, <<" ">>, <<"h">>, <<"h", "/", "v">>, <<"h", " ">>}
BaseUrlStrings == {core \o Slashes(k) : core \in BaseUrlCores, k \in 0..MaxSlashes}
BaseUrlInputs == {Undefined, NonString} \cup {Str(s) : s \in BaseUrlStrings}

\* the call without an options object, and the calls with one
NoOptions ==
    [present |-> FALSE, prompt |-> Undefined, apiKey |-> Undefined, baseUrl |-> Undefined,
     model |-> Absent, size |-> Absent, quality |-> Absent]
OptionsInputs ==
    {NoOptions}
      \cup [present : {TRUE}, prompt : PromptInputs, apiKey : ApiKeyInputs,
            baseUrl : BaseUrlInputs, model : {Absent}, size : {Absent},
            quality : {Absent}]

\* model = "dall-e-3", size = "1024x1024", quality = "standard": a missing
\* optional field takes its default in the destructuring
DefaultOf(x, d) == IF x = Absent THEN d ELSE x

NoRequest ==
    [endpoint |-> <<>>, prompt |-> <<>>, bearer |-> <<>>, model |-> Absent,
     size |-> Absent, quality |-> Absent, n |-> 0]

\* fetch(endpoint, {headers: {Authorization}, body: {model, prompt, n, size, quality}})
RequestOf(opts) ==
    [endpoint |-> EndpointOf(opts.baseUrl.chars),
     prompt |-> Trim(opts.prompt.chars),
     bearer |-> opts.apiKey.chars,
     model |-> DefaultOf(opts.model, "dall-e-3"),
     size |-> DefaultOf(opts.size, "1024x1024"),
     quality |-> DefaultOf(opts.quality, "standard"),
     n |-> 1]

(***************************************************************************)
(* State.                                                                  *)
(***************************************************************************)
VARIABLES
    genPc,          \* position of the generateImage call
    genOptions,     \* the argument of the call
    genRequest,     \* the request handed to fetch
    genFetchCount,  \* number of fetch calls made by this call
    genOutcome,     \* how fetch settled
    genBody,        \* the body the response carried
    genResult       \* the value the call returned

genVars ==
    <<genPc, genOptions, genRequest, genFetchCount, genOutcome, genBody, genResult>>

VARIABLES
    name,           \* form field: character name
    personality,    \* form field: personality
    firstMessage,   \* form field: first message
    avatarFile,     \* the chosen avatar file, or NoFile (null)
    isLoading,      \* the submit control is disabled while true
    toast,          \* the message shown to the user
    clock,          \* Date.now()
    subPc,          \* position of the handleSubmit invocation in flight
    subId,          \* its characterId
    subImagePath,   \* its imagePath
    subAvatar,      \* the avatarFile its closure captured
    subData,        \* its rawCharacterData
    subLog,         \* the store calls it made, in order
    records,        \* Character Record Store, in insertion order
    blobs           \* Blob Store: set of [key, bytes]

\* the form's isOpen prop and the setTimeout callbacks of handleSubmit
VARIABLES
    formOpen,           \* isOpen
    closeTimers,        \* scheduled setTimeout callbacks that have not run yet
    invoked,            \* the callbacks the last timer callback invoked, in order
    openingCreated      \* a submission has succeeded since the form was opened

closeVars == <<formOpen, closeTimers, invoked, openingCreated>>

formVars == <<name, personality, firstMessage, avatarFile>>
subVars ==
    <<name, personality, firstMessage, avatarFile, isLoading, toast, clock, subPc,
      subId, subImagePath, subAvatar, subData, subLog, records, blobs, closeVars>>

\* the thin wrappers generateCharacterAvatar / generateSceneIllustration
VARIABLES
    wrapPc,         \* position of the wrapper call
    wrapKind,       \* which wrapper was called
    wrapArgs,       \* its arguments
    wrapResult      \* the value it returned

wrapVars == <<wrapPc, wrapKind, wrapArgs, wrapResult>>

\* ImageGenerationModal
VARIABLES
    modOpen,            \* the isOpen prop
    prompt,             \* the prompt textarea
    generatedImageUrl,  \* the image on preview, "" when none
    isGenerating,       \* a generation is in flight
    imageSize,          \* the selected size
    modToast,           \* the modal's own toast
    modPc,              \* position of the handleGenerate invocation
    usePc,              \* position of the handleUseImage invocation
    useResponse,        \* the response imageUrlToFile is reading
    modStale            \* the call in flight was started in an earlier opening

modVars ==
    <<modOpen, prompt, generatedImageUrl, isGenerating, imageSize, modToast, modPc,
      usePc, useResponse, modStale>>

\* base64ToFile
VARIABLES
    b64Pc,          \* position of the base64ToFile call
    b64Bytes,       \* the bytes the reference encoder was given
    b64Input,       \* the argument of the call
    b64Result       \* what the call returned or raised

b64Vars == <<b64Pc, b64Bytes, b64Input, b64Result>>

\* PerformanceProvider, the browser's storage and the document root
VARIABLES
    perfPc,                 \* "unmounted", "rendered" (effects not yet run), "idle"
    reducedMotion,          \* the state the last render committed
    lowPowerMode,
    nextReducedMotion,      \* the state the queued updates lead to
    nextLowPowerMode,
    persistPending,         \* the second effect is scheduled for the last commit
    lsLowPowerMode,         \* localStorage "lowPowerMode"
    lsReducedMotion,        \* localStorage "reducedMotion"
    rootClass,              \* the document root has the reduce-motion class
    systemPrefersReduced,   \* matchMedia("(prefers-reduced-motion: reduce)").matches
    perfSaved,              \* what the mount effect read from localStorage
    perfFresh               \* nothing was set since the mount

perfVars ==
    <<perfPc, reducedMotion, lowPowerMode, nextReducedMotion, nextLowPowerMode,
      persistPending, lsLowPowerMode, lsReducedMotion, rootClass, systemPrefersReduced,
      perfSaved, perfFresh>>

\* ChatImageGenerator: its two state variables, its props, its callback
VARIABLES
    showPromptInput,
    imagePrompt,
    chatIsGenerating,       \* the isGenerating prop
    chatSuggestedPrompt,    \* the suggestedPrompt prop
    chatCall                \* the onImageGenerate call the last handler made

chatVars ==
    <<showPromptInput, imagePrompt, chatIsGenerating, chatSuggestedPrompt, chatCall>>

\* the avatar preview of the create-character form and its FileReaders
VARIABLES
    avatarPreview,          \* the data URL shown, NoPreview for ""
    pendingReads            \* files whose readAsDataURL has not ended yet

previewVars == <<avatarPreview, pendingReads>>

moreVars == <<perfVars, chatVars, previewVars>>

vars == <<genVars, subVars, wrapVars, modVars, b64Vars, moreVars>>

\* everything but the state of generateImage, and everything but the state
\* of the creation form
notGen == <<subVars, wrapVars, modVars, b64Vars, moreVars>>
notSub == <<genVars, wrapVars, modVars, b64Vars, moreVars>>

(***************************************************************************)
(* generateImage, one action per stretch of code between two awaits.       *)
(***************************************************************************)
\* entry up to `await fetch(...)`: destructuring (outside the try block),
\* validation, endpoint construction and the fetch call
GenerateImage(opts) ==
    /\ genOptions' = opts
    /\ genOutcome' = NoOutcome
    /\ genBody' = NoBody
    /\ IF ~opts.present
       THEN /\ genPc' = "raised"
            /\ genRequest' = NoRequest
            /\ genFetchCount' = 0
            /\ genResult' = NoResult
       ELSE LET v == Validate(opts)
            IN IF v.outcome = "return"
               THEN /\ genPc' = "returned"
                    /\ genResult' = v.result
                    /\ genRequest' = NoRequest
                    /\ genFetchCount' = 0
               ELSE /\ genPc' = "awaitFetch"
                    /\ genRequest' = RequestOf(opts)
                    /\ genFetchCount' = 1
                    /\ genResult' = NoResult

\* a call of generateImage by a caller that is not modelled further
GenCall(opts) ==
    /\ UNCHANGED notGen
    /\ genPc = "idle"
    /\ GenerateImage(opts)

\* a variant that fetches again after a rejected first attempt
GenFetchSettleRetry(outcome) ==
    /\ UNCHANGED notGen
    /\ genPc = "awaitFetch"
    /\ genOutcome' = outcome
    /\ UNCHANGED <<genOptions, genRequest, genBody>>
    /\ IF outcome.kind = "reject"
       THEN IF genFetchCount < 2
            THEN /\ genPc' = "awaitFetch"
                 /\ genFetchCount' = genFetchCount + 1
                 /\ UNCHANGED genResult
            ELSE /\ genPc' = "returned"
                 /\ genResult' = CatchResult(outcome.message)
                 /\ UNCHANGED genFetchCount
       ELSE /\ genPc' = IF IsOk(outcome.status) THEN "awaitBody" ELSE "awaitErrorBody"
            /\ UNCHANGED <<genResult, genFetchCount>>

\* fetch settles: a rejection is caught; a response head selects the branch
GenFetchSettle(outcome) ==
    /\ UNCHANGED notGen
    /\ genPc = "awaitFetch"
    /\ genOutcome' = outcome
    /\ UNCHANGED <<genOptions, genRequest, genFetchCount, genBody>>
    /\ IF outcome.kind = "reject"
       THEN /\ genPc' = "returned"
            /\ genResult' = CatchResult(outcome.message)
       ELSE /\ genPc' = IF IsOk(outcome.status) THEN "awaitBody" ELSE "awaitErrorBody"
            /\ UNCHANGED genResult

\* response.json() of a non-success response settles
GenErrorBodySettle(body) ==
    /\ UNCHANGED notGen
    /\ genPc = "awaitErrorBody"
    /\ genBody' = body
    /\ genPc' = "returned"
    /\ genResult' = ErrorResult(genOutcome.status, body)
    /\ UNCHANGED <<genOptions, genRequest, genFetchCount, genOutcome>>

\* response.json() of a success response settles
GenBodySettle(body) ==
    /\ UNCHANGED notGen
    /\ genPc = "awaitBody"
    /\ genBody' = body
    /\ genPc' = "returned"
    /\ genResult' = ExtractResult(body)
    /\ UNCHANGED <<genOptions, genRequest, genFetchCount, genOutcome>>

GenNext ==
    \/ \E opts \in OptionsInputs : GenCall(opts)
    \/ \E outcome \in FetchOutcomes : GenFetchSettle(outcome)
    \/ \E body \in ErrorBodies : GenErrorBodySettle(body)
    \/ \E body \in SuccessBodies : GenBodySettle(body)


(***************************************************************************)
(* Character creation: the form, the stores and handleSubmit.              *)
(***************************************************************************)
NoFile == "null"
Files == {"fileA"}
NameInputs == {<<>>, <<" ">>, <<" ", "B">>}
PersonalityInputs == {<<>>, <<"p">>}

\* "default-avatar.png" and `${characterId}.png`
DefaultAvatarKey == [default |-> TRUE, id |-> 0]
PngKey(id) == [default |-> FALSE, id |-> id]

NoToast == [message |-> "", type |-> "error"]
ErrorToast(msg) == [message |-> msg, type |-> "error"]
SuccessToast(msg) == [message |-> msg, type |-> "success"]

FirstMessageInputs == {<<>>, <<" ">>, <<"h", " ">>}

\* character_book: null (isNull), or a book with its entries array
NullBook == [isNull |-> TRUE, entries |-> <<>>]

NoData ==
    [name |-> <<>>, personality |-> <<>>, first_mes |-> <<>>, character_book |-> NullBook]

\* `Hello, I'm ${name.trim()}.`
Greeting(n) == <<"Hello, I'm ">> \o Trim(n) \o <<".">>

\* a default that tests the input without trimming it
FirstMesUntrimmedTest(fm, n) == IF fm # <<>> THEN Trim(fm) ELSE Greeting(n)
\* first_mes: firstMessage.trim() || `Hello, I'm ${name.trim()}.`
FirstMes(fm, n) == IF Trim(fm) # <<>> THEN Trim(fm) ELSE Greeting(n)

\* rawCharacterData, the fields the stores and the checks read
RawCharacterData(n, p, fm) ==
    [name |-> Trim(n), personality |-> Trim(p), first_mes |-> FirstMes(fm, n),
     character_book |-> NullBook]

\* a required-field test that forgets to trim
RequiredMissingNoTrim(field) == field = <<>>
\* if (!name.trim()) / if (!personality.trim())
RequiredMissing(field) == Trim(field) = <<>>

\* variants of the image path: a name without the id, and the id's name
\* whether or not there is a file
ImagePathWithoutId(id, file) == IF file # NoFile THEN PngKey(0) ELSE DefaultAvatarKey
ImagePathAlwaysPng(id, file) == PngKey(id)
\* imagePath = avatarFile ? `${characterId}.png` : "default-avatar.png"
ImagePath(id, file) == IF file # NoFile THEN PngKey(id) ELSE DefaultAvatarKey

\* LocalCharacterRecordOperations.createCharacter: rejects a payload without
\* name or personality and an id that is already stored, else appends
CreateCharacterRejects(store, id, data) ==
    \/ data.name = <<>>
    \/ data.personality = <<>>
    \/ \E i \in 1..Len(store) : store[i].id = id
CreateCharacter(store, id, data, avatarKey) ==
    Append(store, [id |-> id, data |-> data, avatarKey |-> avatarKey])

\* setBlob(key, file): last write wins
SetBlob(store, key, file) ==
    {b \in store : b.key # key} \cup {[key |-> key, bytes |-> file]}

HasBlob(store, key) == \E b \in store : b.key = key

(***************************************************************************)
(* generateCharacterAvatar and generateSceneIllustration.                  *)
(***************************************************************************)
DescriptionInputs == {<<>>, <<" ">>, <<"d">>}
WrapApiKeyInputs == {Undefined, Str(<<" ">>), Str(<<"k">>)}
WrapBaseUrlInputs == {Undefined, Str(<<>>), Str(<<"h", "/">>)}
NoWrapArgs == [description |-> <<>>, apiKey |-> Undefined, baseUrl |-> Undefined]

\* the two template literals, each stretch of fixed text kept as one token
AvatarPrompt(desc) ==
    <<"Create a high-quality portrait illustration of: ">> \o desc
      \o <<". Professional digital art style, detailed facial features, appropriate for a character profile picture. Focus on the character's face and upper body.">>
ScenePrompt(desc) ==
    <<"Illustrate this scene: ">> \o desc
      \o <<". High-quality digital art, detailed environment, atmospheric lighting, cinematic composition.">>

\* a wrapper that leaves the quality to generateImage's default
AvatarOptionsDefaultQuality(desc, key, url) ==
    [present |-> TRUE, prompt |-> Str(AvatarPrompt(desc)), apiKey |-> key, baseUrl |-> url,
     model |-> "dall-e-3", size |-> "1024x1024", quality |-> Absent]
\* the options object generateCharacterAvatar passes
AvatarOptions(desc, key, url) ==
    [present |-> TRUE, prompt |-> Str(AvatarPrompt(desc)), apiKey |-> key, baseUrl |-> url,
     model |-> "dall-e-3", size |-> "1024x1024", quality |-> "hd"]
\* the options object generateSceneIllustration passes
SceneOptions(desc, key, url) ==
    [present |-> TRUE, prompt |-> Str(ScenePrompt(desc)), apiKey |-> key, baseUrl |-> url,
     model |-> "dall-e-3", size |-> "1792x1024", quality |-> "hd"]

(***************************************************************************)
(* ImageGenerationModal and imageUrlToFile.                                *)
(***************************************************************************)
\* what the prompt textarea can hold, and the suggestedPrompt prop
ModalPromptInputs == {<<>>, <<" ">>, <<"a", " ">>}
SuggestedPrompts == {<<>>, <<"a", " ">>}
ImageSizes == {"1024x1024", "1024x1792", "1792x1024"}

\* localStorage.getItem("openaiApiKey") || "", getItem("openaiBaseUrl") || ""
StoredApiKeys == {<<>>, <<"k">>}
StoredBaseUrls == {<<>>, <<" ">>, <<"h", "/">>}

\* the bodies a success response carries while the modal is the caller
ModalBodies == {body \in SuccessBodies : Len(body.items) <= 1}

\* generateImage({prompt: prompt.trim(), apiKey, baseUrl, size: imageSize, quality: "hd"})
ModalOptions(p, key, url, size) ==
    [present |-> TRUE, prompt |-> Str(Trim(p)), apiKey |-> Str(key), baseUrl |-> Str(url),
     model |-> Absent, size |-> size, quality |-> "hd"]

\* fetch(imageUrl) settles, then response.blob() settles
NoResponse == [kind |-> "none", status |-> 0]
UrlFetchOutcomes ==
    [kind : {"reject"}, status : {0}] \cup [kind : {"response"}, status : {200, 404}]
BlobOutcomes ==
    {[kind |-> "reject", bytes |-> ""]}
      \cup [kind : {"blob"}, bytes : {"imageBytes", "errorPage"}]

\* an imageUrlToFile that answers a rejected fetch with a stand-in asset
FetchRejectedFallbackAsset == [raised |-> FALSE, file |-> "placeholderBytes"]
\* imageUrlToFile has no try/catch: a rejected fetch or blob() is raised
FetchRejected == [raised |-> TRUE, file |-> NoFile]
BlobRejected == [raised |-> TRUE, file |-> NoFile]
\* return new File([blob], filename, {type: blob.type})
UrlToFileReturn(blob) == [raised |-> FALSE, file |-> blob.bytes]

(***************************************************************************)
(* base64ToFile: the prefix regex, atob and the copy into a Uint8Array.    *)
(* A string is a sequence of characters; the fixed stretches "data:image/" *)
(* and ";base64," are one token each. A byte is a number in 0..255.        *)
(***************************************************************************)
MaxBytes == 3
ByteInputs == {0, 77, 255}
ImageTypes == {<<"p", "n", "g">>, <<"s", "v", "g", "+", "x", "m", "l">>}

B64Alphabet ==
    <<"A", "B", "C", "D", "E", "F", "G", "H", "I", "J", "K", "L", "M", "N", "O", "P",
      "Q", "R", "S", "T", "U", "V", "W", "X", "Y", "Z", "a", "b", "c", "d", "e", "f",
      "g", "h", "i", "j", "k", "l", "m", "n", "o", "p", "q", "r", "s", "t", "u", "v",
      "w", "x", "y", "z", "0", "1", "2", "3", "4", "5", "6", "7", "8", "9", "+", "/">>

B64Char(v) == B64Alphabet[v + 1]
B64Value(ch) == (CHOOSE i \in 1..Len(B64Alphabet) : B64Alphabet[i] = ch) - 1
IsB64Char(ch) == \E i \in 1..Len(B64Alphabet) : B64Alphabet[i] = ch

\* the reference encoder (RFC 4648, with padding) that produces the payloads
RECURSIVE Encode(_)
Encode(bs) ==
    IF bs = <<>> THEN <<>>
    ELSE IF Len(bs) = 1
    THEN <<B64Char(bs[1] \div 4), B64Char((bs[1] % 4) * 16), "=", "=">>
    ELSE IF Len(bs) = 2
    THEN <<B64Char(bs[1] \div 4), B64Char((bs[1] % 4) * 16 + bs[2] \div 16),
           B64Char((bs[2] % 16) * 4), "=">>
    ELSE <<B64Char(bs[1] \div 4), B64Char((bs[1] % 4) * 16 + bs[2] \div 16),
           B64Char((bs[2] % 16) * 4 + bs[3] \div 64), B64Char(bs[3] % 64)>>
           \o Encode(SubSeq(bs, 4, Len(bs)))

DataPrefix(type) == <<"data:image/">> \o type \o <<";base64,">>
PrefixInputs == {<<>>} \cup {DataPrefix(type) : type \in ImageTypes}

\* \w: a letter, a digit or the underscore
WordChars == {B64Alphabet[i] : i \in 1..62} \cup {"_"}

\* the index after the run of \w characters that starts at index i
RECURSIVE WordRunEnd(_, _)
WordRunEnd(s, i) ==
    IF i <= Len(s) /\ s[i] \in WordChars THEN WordRunEnd(s, i + 1) ELSE i

\* base64Data.replace(/^data:image\/\w+;base64,/, "")
StripDataPrefix(s) ==
    IF Len(s) >= 1 /\ s[1] = "data:image/"
    THEN LET after == WordRunEnd(s, 2)
         IN IF after > 2 /\ after <= Len(s) /\ s[after] = ";base64,"
            THEN SubSeq(s, after + 1, Len(s))
            ELSE s
    ELSE s

\* atob, step 2 of forgiving-base64 decode: with a length divisible by four,
\* one or two trailing "=" are removed
StripPadding(s) ==
    IF Len(s) % 4 = 0 /\ Len(s) >= 1 /\ s[Len(s)] = "="
    THEN IF s[Len(s) - 1] = "=" THEN SubSeq(s, 1, Len(s) - 2)
         ELSE SubSeq(s, 1, Len(s) - 1)
    ELSE s

\* six bits per character; two or three last characters give one or two bytes
RECURSIVE DecodeGroups(_)
DecodeGroups(s) ==
    IF Len(s) = 0 THEN <<>>
    ELSE LET v1 == B64Value(s[1])
             v2 == B64Value(s[2])
         IN IF Len(s) = 2 THEN <<v1 * 4 + v2 \div 16>>
            ELSE LET v3 == B64Value(s[3])
                 IN IF Len(s) = 3
                    THEN <<v1 * 4 + v2 \div 16, (v2 % 16) * 16 + v3 \div 4>>
                    ELSE <<v1 * 4 + v2 \div 16, (v2 % 16) * 16 + v3 \div 4,
                           (v3 % 4) * 64 + B64Value(s[4])>>
                           \o DecodeGroups(SubSeq(s, 5, Len(s)))

\* atob: whitespace removed, padding removed, then InvalidCharacterError on
\* a length of 1 modulo 4 or a character outside the alphabet
Atob(s) ==
    LET t == StripPadding(SelectSeq(s, LAMBDA ch : ~IsWhitespace(ch)))
    IN IF Len(t) % 4 = 1 \/ \E i \in 1..Len(t) : ~IsB64Char(t[i])
       THEN [raised |-> TRUE, codes |-> <<>>]
       ELSE [raised |-> FALSE, codes |-> DecodeGroups(t)]

NoConversion == [raised |-> FALSE, bytes |-> <<>>, type |-> ""]

\* base64ToFile: bytes[i] = binaryString.charCodeAt(i); type "image/png"
Base64ToFile(base64Data) ==
    LET binaryString == Atob(StripDataPrefix(base64Data))
    IN IF binaryString.raised
       THEN [raised |-> TRUE, bytes |-> <<>>, type |-> ""]
       ELSE [raised |-> FALSE,
             bytes |-> [i \in 1..Len(binaryString.codes) |-> binaryString.codes[i] % 256],
             type |-> "image/png"]

(***************************************************************************)
(* PerformanceProvider: localStorage items and the reduce-motion class.    *)
(***************************************************************************)
\* localStorage.getItem of a key that was never set
NoItem == "null"
\* boolean.toString()
BoolString(b) == IF b THEN "true" ELSE "false"
NothingSaved == [lowPowerMode |-> NoItem, reducedMotion |-> NoItem]

\* a class that follows lowPowerMode alone
ReduceMotionClassLowPowerOnly(low, reduced) == low
\* if (lowPowerMode || reducedMotion) classList.add(...) else classList.remove(...)
ReduceMotionClass(low, reduced) == low \/ reduced

\* the mount effect's choice: the system preference, overridden by a stored
\* "reducedMotion" item when there is one
LoadedReducedMotion(saved, system) == IF saved # NoItem THEN saved = "true" ELSE system

(***************************************************************************)
(* ChatImageGenerator: inputs and the callback.                            *)
(***************************************************************************)
ChatPromptInputs ==
    {<<>>, <<" ">>, <<"a">>, <<" ", "a", " ">>, <<"a", " ", "b">>, <<"b", " ">>,
     <<"a", "b">>, <<" ", "b">>}
ChatSuggestedPrompts == {<<>>, <<"s">>, <<"s", " ">>}
NoCall == [made |-> FALSE, prompt |-> <<>>, typed |-> <<>>, isGenerating |-> FALSE]
\* onImageGenerate(imagePrompt.trim()), with the prop's value at that moment
OnImageGenerate(typed, generating) ==
    [made |-> TRUE, prompt |-> Trim(typed), typed |-> typed, isGenerating |-> generating]

(***************************************************************************)
(* The avatar preview of the create-character form.                        *)
(***************************************************************************)
\* files the user can pick; file.type.startsWith("image/") holds for the
\* image files only
ImageFiles == {"fileA", "fileB"}
OtherFiles == {"notes.txt"}
UploadFiles == ImageFiles \cup OtherFiles
\* the file handleUseImage hands to onImageGenerated
GeneratedFiles == {"imageBytes"}
IsImageType(f) == f \in ImageFiles
NoPreview == <<>>
\* reader.result of readAsDataURL(f)
DataUrl(f) == <<"data:", f>>

\* the timer callback running onClose before onCreate
TimerCallbacksCloseFirst == <<"onClose", "onCreate">>
\* setTimeout(() => { onCreate(); onClose(); }, 1000)
TimerCallbacks == <<"onCreate", "onClose">>

\* the state before any call: no generateImage call made, the form as
\* useState initialises it, both stores empty
Init ==
    /\ genPc = "idle"
    /\ genOptions = NoOptions
    /\ genRequest = NoRequest
    /\ genFetchCount = 0
    /\ genOutcome = NoOutcome
    /\ genBody = NoBody
    /\ genResult = NoResult
    /\ name = <<>>
    /\ personality = <<>>
    /\ firstMessage = <<>>
    /\ avatarFile = NoFile
    /\ isLoading = FALSE
    /\ toast = NoToast
    /\ clock = 1
    /\ subPc = "idle"
    /\ subId = 0
    /\ subImagePath = DefaultAvatarKey
    /\ subAvatar = NoFile
    /\ subData = NoData
    /\ subLog = <<>>
    /\ wrapPc = "idle"
    /\ wrapKind = "none"
    /\ wrapArgs = NoWrapArgs
    /\ wrapResult = NoResult
    /\ modOpen = FALSE
    /\ prompt = <<>>
    /\ generatedImageUrl = ""
    /\ isGenerating = FALSE
    /\ imageSize = "1024x1024"
    /\ modToast = NoToast
    /\ modPc = "idle"
    /\ usePc = "idle"
    /\ useResponse = NoResponse
    /\ modStale = FALSE
    /\ formOpen = TRUE
    /\ closeTimers = 0
    /\ invoked = <<>>
    /\ openingCreated = FALSE
    /\ b64Pc = "idle"
    /\ b64Bytes = <<>>
    /\ b64Input = <<>>
    /\ b64Result = NoConversion
    /\ perfPc = "unmounted"
    /\ reducedMotion = FALSE
    /\ lowPowerMode = FALSE
    /\ nextReducedMotion = FALSE
    /\ nextLowPowerMode = FALSE
    /\ persistPending = FALSE
    /\ lsLowPowerMode = NoItem
    /\ lsReducedMotion = NoItem
    /\ rootClass = FALSE
    /\ systemPrefersReduced = FALSE
    /\ perfSaved = NothingSaved
    /\ perfFresh = TRUE
    /\ showPromptInput = FALSE
    /\ imagePrompt = <<>>
    /\ chatIsGenerating = FALSE
    /\ chatSuggestedPrompt = <<>>
    /\ chatCall = NoCall
    /\ avatarPreview = NoPreview
    /\ pendingReads = {}
    /\ records = <<>>
    /\ blobs = {}


\* the user types into the name field
EditName(v) ==
    /\ UNCHANGED <<notSub, closeVars>>
    /\ formOpen
    /\ name' = v
    /\ UNCHANGED <<personality, firstMessage, avatarFile, isLoading, toast, clock, subPc, subId,
                   subImagePath, subAvatar, subData, subLog, records, blobs>>

\* the user types into the personality field
EditPersonality(v) ==
    /\ UNCHANGED <<notSub, closeVars>>
    /\ formOpen
    /\ personality' = v
    /\ UNCHANGED <<name, firstMessage, avatarFile, isLoading, toast, clock, subPc, subId,
                   subImagePath, subAvatar, subData, subLog, records, blobs>>

\* the user types into the first-message field
EditFirstMessage(v) ==
    /\ UNCHANGED <<notSub, closeVars>>
    /\ formOpen
    /\ firstMessage' = v
    /\ UNCHANGED <<name, personality, avatarFile, isLoading, toast, clock, subPc,
                   subId, subImagePath, subAvatar, subData, subLog, records, blobs>>

\* what the form's own handlers leave alone
formOthers == <<genVars, wrapVars, modVars, b64Vars, perfVars, chatVars>>

\* handleAvatarUpload with a file chosen
HandleAvatarUpload(f) ==
    /\ UNCHANGED formOthers
    /\ formOpen
    /\ IF ~IsImageType(f)
       THEN /\ toast' = ErrorToast("Please upload an image file")
            /\ UNCHANGED <<avatarFile, pendingReads>>
       ELSE /\ avatarFile' = f
            /\ pendingReads' = pendingReads \cup {f}
            /\ UNCHANGED toast
    /\ UNCHANGED <<name, personality, firstMessage, isLoading, clock, subPc, subId,
                   subImagePath, subAvatar, subData, subLog, records, blobs, closeVars,
                   avatarPreview>>

\* handleAvatarUpload with an image file: it becomes the avatar
ChooseAvatar(f) == IsImageType(f) /\ HandleAvatarUpload(f)

\* the wall clock advances by a millisecond
Tick ==
    /\ UNCHANGED <<notSub, closeVars>>
    /\ clock < MaxClock
    /\ clock' = clock + 1
    /\ UNCHANGED <<formVars, isLoading, toast, subPc, subId, subImagePath,
                   subAvatar, subData, subLog, records, blobs>>

\* the invocation has returned: its local variables are gone
ReturnFromSubmit ==
    /\ subPc' = "idle"
    /\ subId' = 0
    /\ subImagePath' = DefaultAvatarKey
    /\ subAvatar' = NoFile
    /\ subData' = NoData
    /\ subLog' = <<>>

\* a catch block with no finally after it
SubmitFailedStillLoading(msg) ==
    /\ toast' = ErrorToast(msg)
    /\ UNCHANGED isLoading
    /\ ReturnFromSubmit
    /\ UNCHANGED closeVars

\* catch (error) { showToast(error.message || ...) } finally { setIsLoading(false) }
SubmitFailed(msg) ==
    /\ toast' = ErrorToast(msg)
    /\ isLoading' = FALSE
    /\ ReturnFromSubmit
    /\ UNCHANGED closeVars

\* showToast("Character created successfully!", "success"),
\* setTimeout(() => { onCreate(); onClose(); }, 1000), then finally
SubmitSucceeded ==
    /\ toast' = SuccessToast("Character created successfully!")
    /\ closeTimers' = closeTimers + 1
    /\ openingCreated' = TRUE
    /\ UNCHANGED <<formOpen, invoked>>
    /\ isLoading' = FALSE
    /\ ReturnFromSubmit

\* handleSubmit from the submit event to the first await
Submit ==
    /\ UNCHANGED <<notSub, closeVars>>
    /\ formOpen
    /\ closeTimers < MaxTimers
    /\ ~isLoading
    /\ subPc = "idle"
    /\ IF RequiredMissing(name)
       THEN /\ toast' = ErrorToast("Character name is required")
            /\ UNCHANGED <<formVars, isLoading, clock, subPc, subId, subImagePath,
                           subAvatar, subData, subLog, records, blobs>>
       ELSE IF RequiredMissing(personality)
       THEN /\ toast' = ErrorToast("Character personality is required")
            /\ UNCHANGED <<formVars, isLoading, clock, subPc, subId, subImagePath,
                           subAvatar, subData, subLog, records, blobs>>
       ELSE /\ isLoading' = TRUE
            /\ subId' = clock
            /\ subImagePath' = ImagePath(clock, avatarFile)
            /\ subAvatar' = avatarFile
            /\ subData' = RawCharacterData(name, personality, firstMessage)
            /\ subLog' = <<>>
            /\ subPc' = "awaitImportOps"
            /\ UNCHANGED <<formVars, toast, clock, records, blobs>>

\* await import(".../character-record-operation") settles
ImportOpsSettle(ok) ==
    /\ UNCHANGED notSub
    /\ subPc = "awaitImportOps"
    /\ IF ok
       THEN /\ subPc' = "awaitImportBlob"
            /\ UNCHANGED <<isLoading, toast, subId, subImagePath, subAvatar, subData, subLog,
                           closeVars>>
       ELSE SubmitFailed("Failed to load module")
    /\ UNCHANGED <<formVars, clock, records, blobs>>

\* await import(".../local-storage") settles; createCharacter is called
ImportBlobSettle(ok) ==
    /\ UNCHANGED notSub
    /\ subPc = "awaitImportBlob"
    /\ IF ok
       THEN /\ subPc' = "awaitCreate"
            /\ subLog' = Append(subLog, "createCharacter:start")
            /\ UNCHANGED <<isLoading, toast, subId, subImagePath, subAvatar, subData,
                           closeVars>>
       ELSE SubmitFailed("Failed to load module")
    /\ UNCHANGED <<formVars, clock, records, blobs>>

\* await createCharacter(...) settles; with an avatar file setBlob is called
CreateSettle(ioOk) ==
    /\ UNCHANGED notSub
    /\ subPc = "awaitCreate"
    /\ IF ioOk /\ ~CreateCharacterRejects(records, subId, subData)
       THEN /\ records' = CreateCharacter(records, subId, subData, subImagePath)
            /\ IF subAvatar # NoFile
               THEN /\ subPc' = "awaitSetBlob"
                    /\ subLog' = subLog \o <<"createCharacter:done", "setBlob:start">>
                    /\ UNCHANGED <<isLoading, toast, subId, subImagePath, subAvatar, subData,
                                   closeVars>>
               ELSE SubmitSucceeded
       ELSE /\ SubmitFailed("Failed to create character")
            /\ UNCHANGED records
    /\ UNCHANGED <<formVars, clock, blobs>>

\* await setBlob(imagePath, avatarFile) settles
SetBlobSettle(ioOk) ==
    /\ UNCHANGED notSub
    /\ subPc = "awaitSetBlob"
    /\ IF ioOk
       THEN /\ blobs' = SetBlob(blobs, subImagePath, subAvatar)
            /\ SubmitSucceeded
       ELSE /\ SubmitFailed("Failed to create character")
            /\ UNCHANGED blobs
    /\ UNCHANGED <<formVars, clock, records>>

SubNext ==
    \/ \E v \in NameInputs : EditName(v)
    \/ \E v \in PersonalityInputs : EditPersonality(v)
    \/ \E v \in FirstMessageInputs : EditFirstMessage(v)
    \/ \E f \in Files : ChooseAvatar(f)
    \/ Tick
    \/ Submit
    \/ \E ok \in BOOLEAN : ImportOpsSettle(ok)
    \/ \E ok \in BOOLEAN : ImportBlobSettle(ok)
    \/ \E ioOk \in BOOLEAN : CreateSettle(ioOk)
    \/ \E ioOk \in BOOLEAN : SetBlobSettle(ioOk)

(***************************************************************************)
(* The wrappers: the call, and the return of what generateImage returned.  *)
(***************************************************************************)
\* generateCharacterAvatar(characterDescription, apiKey, baseUrl)
AvatarCall(desc, key, url) ==
    /\ UNCHANGED <<subVars, modVars, b64Vars, moreVars>>
    /\ wrapPc = "idle"
    /\ wrapPc' = "awaitGenerate"
    /\ wrapKind' = "avatar"
    /\ wrapArgs' = [description |-> desc, apiKey |-> key, baseUrl |-> url]
    /\ UNCHANGED wrapResult
    /\ GenerateImage(AvatarOptions(desc, key, url))

\* generateSceneIllustration(sceneDescription, apiKey, baseUrl)
SceneCall(desc, key, url) ==
    /\ UNCHANGED <<subVars, modVars, b64Vars, moreVars>>
    /\ wrapPc = "idle"
    /\ wrapPc' = "awaitGenerate"
    /\ wrapKind' = "scene"
    /\ wrapArgs' = [description |-> desc, apiKey |-> key, baseUrl |-> url]
    /\ UNCHANGED wrapResult
    /\ GenerateImage(SceneOptions(desc, key, url))

\* return await generateImage(...): the awaited value is returned as it is,
\* a raised error would propagate
WrapReturn ==
    /\ UNCHANGED <<genVars, subVars, modVars, b64Vars, moreVars>>
    /\ wrapPc = "awaitGenerate"
    /\ genPc \in {"returned", "raised"}
    /\ IF genPc = "returned"
       THEN /\ wrapPc' = "returned"
            /\ wrapResult' = genResult
       ELSE /\ wrapPc' = "raised"
            /\ UNCHANGED wrapResult
    /\ UNCHANGED <<wrapKind, wrapArgs>>

WrapNext ==
    \/ \E desc \in DescriptionInputs, key \in WrapApiKeyInputs, url \in WrapBaseUrlInputs :
          AvatarCall(desc, key, url)
    \/ \E desc \in DescriptionInputs, key \in WrapApiKeyInputs, url \in WrapBaseUrlInputs :
          SceneCall(desc, key, url)
    \/ \E outcome \in FetchOutcomes : GenFetchSettle(outcome)
    \/ \E body \in ErrorBodies : GenErrorBodySettle(body)
    \/ \E body \in SuccessBodies : GenBodySettle(body)
    \/ WrapReturn

(***************************************************************************)
(* ImageGenerationModal: its handlers, one action per stretch between      *)
(* awaits. The controls are guarded as the rendering disables or hides     *)
(* them.                                                                   *)
(***************************************************************************)
\* the creation form's state the modal never touches
subButAvatarToast ==
    <<name, personality, firstMessage, isLoading, clock, subPc, subId, subImagePath,
      subAvatar, subData, subLog, records, blobs, closeVars>>

\* "Generate Avatar": setIsImageGenModalOpen(true); the effect on isOpen
\* resets the prompt and the preview
OpenModal(suggested) ==
    /\ UNCHANGED <<genVars, subVars, wrapVars, b64Vars, moreVars>>
    /\ ~modOpen
    /\ modOpen' = TRUE
    /\ prompt' = suggested
    /\ generatedImageUrl' = ""
    /\ modStale' = (modPc = "awaitGenerate")
    /\ UNCHANGED <<isGenerating, imageSize, modToast, modPc, usePc, useResponse>>

\* a click on the backdrop: onClose
CloseModal ==
    /\ UNCHANGED <<genVars, subVars, wrapVars, b64Vars, moreVars>>
    /\ modOpen
    /\ modOpen' = FALSE
    /\ UNCHANGED <<prompt, generatedImageUrl, isGenerating, imageSize, modToast, modPc,
                   usePc, useResponse, modStale>>

\* the prompt textarea, disabled while generating
EditPrompt(v) ==
    /\ UNCHANGED <<genVars, subVars, wrapVars, b64Vars, moreVars>>
    /\ modOpen /\ ~isGenerating
    /\ prompt' = v
    /\ UNCHANGED <<modOpen, generatedImageUrl, isGenerating, imageSize, modToast, modPc,
                   usePc, useResponse, modStale>>

\* the three size buttons, disabled while generating
SetImageSize(size) ==
    /\ UNCHANGED <<genVars, subVars, wrapVars, b64Vars, moreVars>>
    /\ modOpen /\ ~isGenerating
    /\ imageSize' = size
    /\ UNCHANGED <<modOpen, prompt, generatedImageUrl, isGenerating, modToast, modPc,
                   usePc, useResponse, modStale>>

\* "Generate Image" enabled whatever isGenerating is
GenerateEnabledWhileGenerating == Trim(prompt) # <<>>
\* "Generate Image": disabled={isGenerating || !prompt.trim()}
GenerateEnabled == ~isGenerating /\ Trim(prompt) # <<>>
\* "Generate Another" is rendered with the preview: generatedImageUrl && !isGenerating
GenerateAnotherShown == generatedImageUrl # "" /\ ~isGenerating

\* handleGenerate from the click to `await generateImage(...)`. "Generate
\* Image" is disabled on a blank prompt, "Generate Another" is not.
HandleGenerate(key, url) ==
    /\ UNCHANGED <<subVars, wrapVars, b64Vars, moreVars>>
    /\ modOpen
    /\ GenerateEnabled \/ GenerateAnotherShown
    /\ IF Trim(prompt) = <<>>
       THEN /\ modToast' = ErrorToast("Please enter an image description")
            /\ UNCHANGED <<genVars, generatedImageUrl, isGenerating, modPc>>
       ELSE IF key = <<>> \/ url = <<>>
       THEN /\ modToast' = ErrorToast("Please configure your CloudGPT API settings first")
            /\ generatedImageUrl' = ""
            /\ UNCHANGED <<genVars, isGenerating, modPc>>
       ELSE /\ isGenerating' = TRUE
            /\ generatedImageUrl' = ""
            /\ modPc' = "awaitGenerate"
            /\ GenerateImage(ModalOptions(prompt, key, url, imageSize))
            /\ UNCHANGED modToast
    /\ UNCHANGED <<modOpen, prompt, imageSize, usePc, useResponse, modStale>>

\* generateImage has settled: the result test, catch and finally of
\* handleGenerate; the finished call's state is discarded
HandleGenerateResume ==
    /\ UNCHANGED <<subVars, wrapVars, b64Vars, moreVars>>
    /\ modPc = "awaitGenerate"
    /\ genPc \in {"returned", "raised"}
    /\ IF genPc = "raised"
       THEN /\ modToast' = ErrorToast("Cannot destructure property 'prompt'")
            /\ UNCHANGED generatedImageUrl
       ELSE IF genResult.success /\ Truthy(genResult.imageUrl)
       THEN /\ generatedImageUrl' = genResult.imageUrl
            /\ modToast' = SuccessToast("Image generated successfully!")
       ELSE /\ modToast' = ErrorToast(IF Truthy(genResult.error) THEN genResult.error
                                      ELSE "Failed to generate image")
            /\ UNCHANGED generatedImageUrl
    /\ isGenerating' = FALSE
    /\ modPc' = "idle"
    /\ genPc' = "idle"
    /\ genOptions' = NoOptions
    /\ genRequest' = NoRequest
    /\ genFetchCount' = 0
    /\ genOutcome' = NoOutcome
    /\ genBody' = NoBody
    /\ genResult' = NoResult
    /\ modStale' = FALSE
    /\ UNCHANGED <<modOpen, prompt, imageSize, usePc, useResponse>>

\* handleUseImage from the click on "Use This Image" (shown with a preview,
\* not while generating) to `await fetch(imageUrl)` inside imageUrlToFile
HandleUseImage ==
    /\ UNCHANGED <<genVars, subVars, wrapVars, b64Vars, moreVars>>
    /\ modOpen /\ ~isGenerating /\ generatedImageUrl # ""
    /\ usePc = "idle"
    /\ IF generatedImageUrl = ""
       THEN /\ modToast' = ErrorToast("No image to use")
            /\ UNCHANGED <<usePc, useResponse>>
       ELSE /\ usePc' = "awaitFetch"
            /\ useResponse' = NoResponse
            /\ UNCHANGED modToast
    /\ UNCHANGED <<modOpen, prompt, generatedImageUrl, isGenerating, imageSize, modPc,
                   modStale>>

\* the rest of handleUseImage once imageUrlToFile has settled:
\* onImageGenerated(imageFile) is the form's handleImageGenerated, onClose
\* closes the modal; the catch block shows the error
UseImageResume(result) ==
    /\ usePc' = "idle"
    /\ IF result.raised
       THEN /\ modToast' = ErrorToast("Failed to process generated image")
            /\ UNCHANGED <<avatarFile, toast, pendingReads, modOpen>>
       ELSE /\ avatarFile' = result.file
            /\ pendingReads' = pendingReads \cup {result.file}
            /\ toast' = SuccessToast("Avatar generated successfully!")
            /\ modOpen' = FALSE
            /\ UNCHANGED modToast

\* imageUrlToFile: `await fetch(imageUrl)` settles
UrlFetchSettle(outcome) ==
    /\ UNCHANGED <<genVars, subButAvatarToast, wrapVars, b64Vars, perfVars, chatVars,
                   avatarPreview>>
    /\ usePc = "awaitFetch"
    /\ useResponse' = outcome
    /\ IF outcome.kind = "reject"
       THEN UseImageResume(FetchRejected)
       ELSE /\ usePc' = "awaitBlob"
            /\ UNCHANGED <<avatarFile, toast, pendingReads, modOpen, modToast>>
    /\ UNCHANGED <<prompt, generatedImageUrl, isGenerating, imageSize, modPc, modStale>>

\* imageUrlToFile: `await response.blob()` settles, whatever the status was
UrlBlobSettle(blob) ==
    /\ UNCHANGED <<genVars, subButAvatarToast, wrapVars, b64Vars, perfVars, chatVars,
                   avatarPreview>>
    /\ usePc = "awaitBlob"
    /\ IF blob.kind = "reject"
       THEN UseImageResume(BlobRejected)
       ELSE UseImageResume(UrlToFileReturn(blob))
    /\ UNCHANGED <<prompt, generatedImageUrl, isGenerating, imageSize, modPc, useResponse,
                   modStale>>

ModalNext ==
    \/ \E suggested \in SuggestedPrompts : OpenModal(suggested)
    \/ CloseModal
    \/ \E v \in ModalPromptInputs : EditPrompt(v)
    \/ \E size \in ImageSizes : SetImageSize(size)
    \/ \E key \in StoredApiKeys, url \in StoredBaseUrls : HandleGenerate(key, url)
    \/ \E outcome \in FetchOutcomes : GenFetchSettle(outcome)
    \/ \E body \in ErrorBodies : GenErrorBodySettle(body)
    \/ \E body \in ModalBodies : GenBodySettle(body)
    \/ HandleGenerateResume
    \/ HandleUseImage
    \/ \E outcome \in UrlFetchOutcomes : UrlFetchSettle(outcome)
    \/ \E blob \in BlobOutcomes : UrlBlobSettle(blob)

(***************************************************************************)
(* base64ToFile called with what the reference encoder made of some bytes. *)
(***************************************************************************)
B64Call(bytes, prefix) ==
    /\ UNCHANGED <<genVars, subVars, wrapVars, modVars, moreVars>>
    /\ b64Pc' = "returned"
    /\ b64Bytes' = bytes
    /\ b64Input' = prefix \o Encode(bytes)
    /\ b64Result' = Base64ToFile(prefix \o Encode(bytes))

B64Next ==
    \E bytes \in SeqsUpTo(ByteInputs, MaxBytes), prefix \in PrefixInputs :
       B64Call(bytes, prefix)

(***************************************************************************)
(* PerformanceProvider: mount, the two effects, renders and setters.       *)
(***************************************************************************)
perfOthers == <<genVars, subVars, wrapVars, modVars, b64Vars, chatVars, previewVars>>

\* the page is loaded: the first render with both useState(false)
PerfMount ==
    /\ UNCHANGED perfOthers
    /\ perfPc = "unmounted"
    /\ perfPc' = "rendered"
    /\ reducedMotion' = FALSE
    /\ lowPowerMode' = FALSE
    /\ nextReducedMotion' = FALSE
    /\ nextLowPowerMode' = FALSE
    /\ UNCHANGED <<persistPending, lsLowPowerMode, lsReducedMotion, rootClass,
                   systemPrefersReduced, perfSaved, perfFresh>>

\* the effects of the first commit, run one after the other in one flush:
\* the mount effect queues the loaded values, then the second effect runs
\* with the state of the first render
PerfMountEffects ==
    /\ UNCHANGED perfOthers
    /\ perfPc = "rendered"
    /\ perfPc' = "idle"
    /\ perfSaved' = [lowPowerMode |-> lsLowPowerMode, reducedMotion |-> lsReducedMotion]
    /\ perfFresh' = TRUE
    /\ nextLowPowerMode' = (lsLowPowerMode = "true")
    /\ nextReducedMotion' = LoadedReducedMotion(lsReducedMotion, systemPrefersReduced)
    /\ lsLowPowerMode' = BoolString(lowPowerMode)
    /\ lsReducedMotion' = BoolString(reducedMotion)
    /\ rootClass' = ReduceMotionClass(lowPowerMode, reducedMotion)
    /\ persistPending' = FALSE
    /\ UNCHANGED <<reducedMotion, lowPowerMode, systemPrefersReduced>>

\* a render that commits the queued updates; a changed dependency schedules
\* the second effect
PerfRender ==
    /\ UNCHANGED perfOthers
    /\ perfPc = "idle"
    /\ ~persistPending
    /\ <<nextReducedMotion, nextLowPowerMode>> # <<reducedMotion, lowPowerMode>>
    /\ reducedMotion' = nextReducedMotion
    /\ lowPowerMode' = nextLowPowerMode
    /\ persistPending' = TRUE
    /\ UNCHANGED <<perfPc, nextReducedMotion, nextLowPowerMode, lsLowPowerMode,
                   lsReducedMotion, rootClass, systemPrefersReduced, perfSaved, perfFresh>>

\* the second effect: both items are written, the class is added or removed
PerfPersistEffect ==
    /\ UNCHANGED perfOthers
    /\ perfPc = "idle"
    /\ persistPending
    /\ persistPending' = FALSE
    /\ lsLowPowerMode' = BoolString(lowPowerMode)
    /\ lsReducedMotion' = BoolString(reducedMotion)
    /\ rootClass' = ReduceMotionClass(lowPowerMode, reducedMotion)
    /\ UNCHANGED <<perfPc, reducedMotion, lowPowerMode, nextReducedMotion,
                   nextLowPowerMode, systemPrefersReduced, perfSaved, perfFresh>>

\* a consumer calls setLowPowerMode(value)
SetLowPowerMode(value) ==
    /\ UNCHANGED perfOthers
    /\ perfPc = "idle"
    /\ nextLowPowerMode' = value
    /\ perfFresh' = FALSE
    /\ UNCHANGED <<perfPc, reducedMotion, lowPowerMode, nextReducedMotion, persistPending,
                   lsLowPowerMode, lsReducedMotion, rootClass, systemPrefersReduced,
                   perfSaved>>

\* a consumer calls setReducedMotion(value)
SetReducedMotion(value) ==
    /\ UNCHANGED perfOthers
    /\ perfPc = "idle"
    /\ nextReducedMotion' = value
    /\ perfFresh' = FALSE
    /\ UNCHANGED <<perfPc, reducedMotion, lowPowerMode, nextLowPowerMode, persistPending,
                   lsLowPowerMode, lsReducedMotion, rootClass, systemPrefersReduced,
                   perfSaved>>

\* the system preference changes; handleChange is registered once the mount
\* effect has run
SystemPreferenceChange(value) ==
    /\ UNCHANGED perfOthers
    /\ value # systemPrefersReduced
    /\ systemPrefersReduced' = value
    /\ IF perfPc = "idle"
       THEN /\ nextReducedMotion' = value
            /\ perfFresh' = FALSE
       ELSE UNCHANGED <<nextReducedMotion, perfFresh>>
    /\ UNCHANGED <<perfPc, reducedMotion, lowPowerMode, nextLowPowerMode, persistPending,
                   lsLowPowerMode, lsReducedMotion, rootClass, perfSaved>>

\* the page is closed: the component state and the document are gone,
\* localStorage stays
PerfPageClose ==
    /\ UNCHANGED perfOthers
    /\ perfPc # "unmounted"
    /\ perfPc' = "unmounted"
    /\ persistPending' = FALSE
    /\ rootClass' = FALSE
    /\ UNCHANGED <<reducedMotion, lowPowerMode, nextReducedMotion, nextLowPowerMode,
                   lsLowPowerMode, lsReducedMotion, systemPrefersReduced, perfSaved,
                   perfFresh>>

PerfNext ==
    \/ PerfMount
    \/ PerfMountEffects
    \/ PerfRender
    \/ PerfPersistEffect
    \/ \E value \in BOOLEAN : SetLowPowerMode(value)
    \/ \E value \in BOOLEAN : SetReducedMotion(value)
    \/ \E value \in BOOLEAN : SystemPreferenceChange(value)
    \/ PerfPageClose

(***************************************************************************)
(* ChatImageGenerator.                                                     *)
(***************************************************************************)
chatOthers == <<genVars, subVars, wrapVars, modVars, b64Vars, perfVars, previewVars>>

\* the "Generate Image" opener, disabled={isGenerating}
ShowPromptInput ==
    /\ UNCHANGED chatOthers
    /\ ~showPromptInput
    /\ ~chatIsGenerating
    /\ showPromptInput' = TRUE
    /\ imagePrompt' = chatSuggestedPrompt
    /\ chatCall' = NoCall
    /\ UNCHANGED <<chatIsGenerating, chatSuggestedPrompt>>

\* the text input's onChange; the input is never disabled
ChatEditPrompt(v) ==
    /\ UNCHANGED chatOthers
    /\ showPromptInput
    /\ imagePrompt' = v
    /\ chatCall' = NoCall
    /\ UNCHANGED <<showPromptInput, chatIsGenerating, chatSuggestedPrompt>>

\* handleGenerate
ChatHandleGenerate ==
    /\ IF Trim(imagePrompt) # <<>>
       THEN /\ chatCall' = OnImageGenerate(imagePrompt, chatIsGenerating)
            /\ showPromptInput' = FALSE
            /\ imagePrompt' = <<>>
       ELSE /\ chatCall' = NoCall
            /\ UNCHANGED <<showPromptInput, imagePrompt>>
    /\ UNCHANGED <<chatIsGenerating, chatSuggestedPrompt>>

\* the "Generate" button, disabled={!imagePrompt.trim() || isGenerating}
ClickGenerate ==
    /\ UNCHANGED chatOthers
    /\ showPromptInput
    /\ Trim(imagePrompt) # <<>> /\ ~chatIsGenerating
    /\ ChatHandleGenerate

\* onKeyPress with Enter and no shift key
PressEnter ==
    /\ UNCHANGED chatOthers
    /\ showPromptInput
    /\ ChatHandleGenerate

\* the "Cancel" button, disabled={isGenerating}
ChatCancel ==
    /\ UNCHANGED chatOthers
    /\ showPromptInput
    /\ ~chatIsGenerating
    /\ showPromptInput' = FALSE
    /\ imagePrompt' = <<>>
    /\ chatCall' = NoCall
    /\ UNCHANGED <<chatIsGenerating, chatSuggestedPrompt>>

\* the parent renders the component with another isGenerating
ParentSetsGenerating(value) ==
    /\ UNCHANGED chatOthers
    /\ value # chatIsGenerating
    /\ chatIsGenerating' = value
    /\ chatCall' = NoCall
    /\ UNCHANGED <<showPromptInput, imagePrompt, chatSuggestedPrompt>>

\* the parent renders the component with another suggestedPrompt
ParentSetsSuggestedPrompt(value) ==
    /\ UNCHANGED chatOthers
    /\ value # chatSuggestedPrompt
    /\ chatSuggestedPrompt' = value
    /\ chatCall' = NoCall
    /\ UNCHANGED <<showPromptInput, imagePrompt, chatIsGenerating>>

ChatNext ==
    \/ ShowPromptInput
    \/ \E v \in ChatPromptInputs : ChatEditPrompt(v)
    \/ ClickGenerate
    \/ PressEnter
    \/ ChatCancel
    \/ \E value \in BOOLEAN : ParentSetsGenerating(value)
    \/ \E value \in ChatSuggestedPrompts : ParentSetsSuggestedPrompt(value)

(***************************************************************************)
(* The create-character form: opening, closing, the timer of a successful  *)
(* submission, and the avatar preview.                                     *)
(***************************************************************************)
\* isOpen becomes true: the reset effect. Pending reads, timers and a
\* submission in flight are left alone.
OpenForm ==
    /\ UNCHANGED formOthers
    /\ ~formOpen
    /\ formOpen' = TRUE
    /\ name' = <<>>
    /\ personality' = <<>>
    /\ firstMessage' = <<>>
    /\ avatarFile' = NoFile
    /\ avatarPreview' = NoPreview
    /\ openingCreated' = FALSE
    /\ UNCHANGED <<isLoading, toast, clock, subPc, subId, subImagePath, subAvatar, subData,
                   subLog, records, blobs, closeTimers, invoked, pendingReads>>

\* the parent sets isOpen to false (after onClose from the backdrop, from
\* "Cancel" or from the timer callback)
CloseForm ==
    /\ UNCHANGED formOthers
    /\ formOpen
    /\ formOpen' = FALSE
    /\ UNCHANGED <<name, personality, firstMessage, avatarFile, isLoading, toast, clock,
                   subPc, subId, subImagePath, subAvatar, subData, subLog, records, blobs,
                   closeTimers, invoked, openingCreated, previewVars>>

\* a timer callback of handleSubmit runs
TimerFire ==
    /\ UNCHANGED formOthers
    /\ closeTimers > 0
    /\ closeTimers' = closeTimers - 1
    /\ invoked' = TimerCallbacks
    /\ UNCHANGED <<name, personality, firstMessage, avatarFile, isLoading, toast, clock,
                   subPc, subId, subImagePath, subAvatar, subData, subLog, records, blobs,
                   formOpen, openingCreated, previewVars>>

\* handleImageGenerated, called by the image modal's handleUseImage
HandleImageGenerated(f) ==
    /\ UNCHANGED formOthers
    /\ avatarFile' = f
    /\ pendingReads' = pendingReads \cup {f}
    /\ toast' = SuccessToast("Avatar generated successfully!")
    /\ UNCHANGED <<name, personality, firstMessage, isLoading, clock, subPc, subId,
                   subImagePath, subAvatar, subData, subLog, records, blobs, closeVars,
                   avatarPreview>>

\* reader.onloadend of a read that completed
ReadEnd(f) ==
    /\ UNCHANGED formOthers
    /\ f \in pendingReads
    /\ pendingReads' = pendingReads \ {f}
    /\ avatarPreview' = DataUrl(f)
    /\ UNCHANGED subVars

PreviewNext ==
    \/ \E f \in UploadFiles : HandleAvatarUpload(f)
    \/ \E f \in GeneratedFiles : HandleImageGenerated(f)
    \/ \E f \in UploadFiles \cup GeneratedFiles : ReadEnd(f)
    \/ CloseForm
    \/ OpenForm

\* submissions at one instant of the clock, in one opening of the form
LoadingNext ==
    \/ \E v \in NameInputs : EditName(v)
    \/ \E v \in PersonalityInputs : EditPersonality(v)
    \/ \E f \in Files : ChooseAvatar(f)
    \/ Submit
    \/ \E ok \in BOOLEAN : ImportOpsSettle(ok)
    \/ \E ok \in BOOLEAN : ImportBlobSettle(ok)
    \/ \E ioOk \in BOOLEAN : CreateSettle(ioOk)
    \/ \E ioOk \in BOOLEAN : SetBlobSettle(ioOk)
    \/ TimerFire

CloseNext ==
    \/ \E v \in NameInputs : EditName(v)
    \/ \E v \in PersonalityInputs : EditPersonality(v)
    \/ \E f \in Files : ChooseAvatar(f)
    \/ Tick
    \/ Submit
    \/ \E ok \in BOOLEAN : ImportOpsSettle(ok)
    \/ \E ok \in BOOLEAN : ImportBlobSettle(ok)
    \/ \E ioOk \in BOOLEAN : CreateSettle(ioOk)
    \/ \E ioOk \in BOOLEAN : SetBlobSettle(ioOk)
    \/ TimerFire
    \/ CloseForm
    \/ OpenForm

SpecGen == Init /\ [][GenNext]_vars

SpecSubmit == Init /\ [][SubNext]_vars

SpecWrap == Init /\ [][WrapNext]_vars

SpecModal == Init /\ [][ModalNext]_vars

SpecB64 == Init /\ [][B64Next]_vars

SpecPerf == Init /\ [][PerfNext]_vars

SpecChat == Init /\ [][ChatNext]_vars

SpecPreview == Init /\ [][PreviewNext]_vars

SpecClose == Init /\ [][CloseNext]_vars

\* every awaited promise of handleSubmit settles: the two dynamic imports,
\* createCharacter and setBlob
SubmitFairness ==
    /\ WF_vars(\E ok \in BOOLEAN : ImportOpsSettle(ok))
    /\ WF_vars(\E ok \in BOOLEAN : ImportBlobSettle(ok))
    /\ WF_vars(\E ioOk \in BOOLEAN : CreateSettle(ioOk))
    /\ WF_vars(\E ioOk \in BOOLEAN : SetBlobSettle(ioOk))

SpecLoading == Init /\ [][LoadingNext]_vars /\ SubmitFairness

Next ==
    \/ GenNext \/ SubNext \/ WrapNext \/ ModalNext \/ B64Next \/ PerfNext
    \/ ChatNext \/ PreviewNext \/ CloseNext \/ LoadingNext

Spec == Init /\ [][Next]_vars

(***************************************************************************)
(* Properties of the creation workflow.                                    *)
(***************************************************************************)
\* C1: in a submission that has an avatar file, the blob write has completed
\* before the record write starts.
C1_BlobWriteBeforeRecordWrite ==
    subAvatar # NoFile =>
      \A i \in 1..Len(subLog) :
         subLog[i] = "createCharacter:start"
           => \E j \in 1..(i - 1) : subLog[j] = "setBlob:done"

\* C2: every persisted record's avatarKey is the default-avatar key or a key
\* that has been written to the Blob Store.
C2_NoDanglingAvatarKey ==
    \A i \in 1..Len(records) :
       \/ records[i].avatarKey = DefaultAvatarKey
       \/ HasBlob(blobs, records[i].avatarKey)

\* a form field that is empty or holds only whitespace
BlankInput(field) == \A i \in 1..Len(field) : field[i] = " "

\* C11: while the name or the personality is blank after trimming, a
\* submission is rejected before any I/O: no id is generated, no module is
\* loaded, no store call is made, both stores stay as they are, and the only
\* message that appears is a "... is required" error.
C11_BlankRejectedBeforeIO ==
    [][(subPc = "idle" /\ (BlankInput(name) \/ BlankInput(personality)))
         => /\ subPc' = "idle"
            /\ isLoading' = FALSE
            /\ subId' = subId
            /\ subLog' = subLog
            /\ records' = records
            /\ blobs' = blobs
            /\ (toast' # toast
                  => /\ toast'.type = "error"
                     /\ toast'.message = IF BlankInput(name)
                                         THEN "Character name is required"
                                         ELSE "Character personality is required")]_vars
C11_Witness ==
    /\ name = <<" ">>
    /\ toast = ErrorToast("Character name is required")
    /\ subPc = "idle"
    /\ records = <<>>
    /\ blobs = {}

\* C12: when a creation with an avatar file completes successfully, the Blob
\* Store holds at `<id>.png` exactly the bytes of the file that was submitted
\* and the Character Record Store holds a record with that id whose avatarKey
\* is `<id>.png`.
C12_AvatarCreationStoresBlobAndRecord ==
    [][(subPc # "idle" /\ subAvatar # NoFile /\ subPc' = "idle" /\ toast'.type = "success")
         => /\ \E b \in blobs' : b.key = PngKey(subId) /\ b.bytes = subAvatar
            /\ \A b \in blobs' : b.key = PngKey(subId) => b.bytes = subAvatar
            /\ \E i \in 1..Len(records') :
                  records'[i].id = subId /\ records'[i].avatarKey = PngKey(subId)]_vars
C12_Witness ==
    /\ subPc = "idle"
    /\ toast = SuccessToast("Character created successfully!")
    /\ \E i \in 1..Len(records) :
          /\ records[i].avatarKey = PngKey(records[i].id)
          /\ [key |-> PngKey(records[i].id), bytes |-> "fileA"] \in blobs

\* C13: a creation without an avatar file never touches the Blob Store (no
\* setBlob call, no new entry) and, when it completes, has persisted a record
\* whose avatarKey is the default-avatar key.
C13_NoAvatarLeavesBlobStore ==
    [][(subPc # "idle" /\ subAvatar = NoFile)
         => /\ blobs' = blobs
            /\ subPc' # "awaitSetBlob"
            /\ (subPc' = "idle" /\ toast'.type = "success"
                  => \E i \in 1..Len(records') :
                        /\ records'[i].id = subId
                        /\ records'[i].avatarKey = DefaultAvatarKey)]_vars
C13_Witness ==
    /\ subPc = "idle"
    /\ toast = SuccessToast("Character created successfully!")
    /\ blobs = {}
    /\ Len(records) = 1
    /\ records[1].avatarKey = DefaultAvatarKey

\* C14: any two creations obtain distinct ids: the id of a creation that has
\* reached createCharacter is the id of no stored record.
C14_DistinctIds ==
    subPc = "awaitCreate" => \A i \in 1..Len(records) : records[i].id # subId

\* C19: in every payload passed to createCharacter the character book is
\* there and its entries are an ordered sequence; it is never null.
C19_BookEntriesIsSequence ==
    subPc = "awaitCreate" => ~subData.character_book.isNull

\* C20: every record has a non-empty first message, and the payload a
\* submission builds carries the trimmed first-message input when that has a
\* non-whitespace character, else "Hello, I'm <trimmed name>.".
C20_FirstMessageDefaulted ==
    /\ [](\A i \in 1..Len(records) : records[i].data.first_mes # <<>>)
    /\ [][(subPc = "idle" /\ subPc' # "idle")
            => /\ subData'.first_mes # <<>>
               /\ subData'.first_mes =
                    IF BlankInput(firstMessage)
                    THEN <<"Hello, I'm ">> \o Trim(name) \o <<".">>
                    ELSE Trim(firstMessage)]_vars
C20_Witness ==
    /\ subPc = "awaitCreate"
    /\ firstMessage = <<" ">>
    /\ subData.first_mes = <<"Hello, I'm ", "B", ".">>

(***************************************************************************)
(* Properties of generateImage.                                            *)
(***************************************************************************)
GenReturned == genPc = "returned"
GenSuccessPath ==
    GenReturned /\ genOutcome.kind = "response" /\ IsOk(genOutcome.status)

\* the declared type of a field: a string, or missing
Typed(v) == v.kind \in {"string", "undefined"}
\* empty, whitespace-only or missing
Blank(v) == v.kind = "undefined" \/ (v.kind = "string" /\ \A i \in 1..Len(v.chars) : v.chars[i] = " ")
ValidField(v) == v.kind = "string" /\ \E i \in 1..Len(v.chars) : v.chars[i] # " "
RequiredMessages ==
    {"Image prompt is required", "API key is required", "API base URL is required"}

\* C3: generateImage never propagates a raised error to its caller, whatever
\* the input (a missing options object included): the call never ends raised.
C3_NeverRaises == genPc # "raised"

\* C4: when any of prompt, apiKey, baseUrl is empty, whitespace-only or
\* missing (the fields being of their declared string type), the call returns
\* {success: false} with one of the "... is required" messages and no fetch
\* call was made.
C4_BlankFieldRejectedWithoutRequest ==
    (/\ genPc # "idle"
     /\ genOptions.present
     /\ Typed(genOptions.prompt) /\ Typed(genOptions.apiKey) /\ Typed(genOptions.baseUrl)
     /\ (Blank(genOptions.prompt) \/ Blank(genOptions.apiKey) \/ Blank(genOptions.baseUrl)))
    => (/\ GenReturned
        /\ ~genResult.success
        /\ genResult.error \in RequiredMessages
        /\ genFetchCount = 0
        /\ genRequest = NoRequest)

C4_Witness ==
    /\ GenReturned
    /\ ValidField(genOptions.prompt) /\ ValidField(genOptions.apiKey)
    /\ genOptions.baseUrl = Str(<<" ">>)
    /\ genResult = Failure("API base URL is required")
    /\ genFetchCount = 0

\* C5: every returned value is a well-formed tagged outcome: on success
\* exactly one of imageUrl, imageData is populated and error is absent; on
\* failure neither is populated and error is a non-empty message.
C5_ResultWellFormed ==
    GenReturned =>
      IF genResult.success
      THEN /\ Truthy(genResult.imageUrl) # Truthy(genResult.imageData)
           /\ (genResult.imageUrl = Absent) # (genResult.imageData = Absent)
           /\ genResult.error = Absent
      ELSE /\ genResult.imageUrl = Absent
           /\ genResult.imageData = Absent
           /\ Truthy(genResult.error)

C5_Witness ==
    /\ GenReturned
    /\ genOutcome.kind = "reject" /\ genOutcome.message = ""
    /\ genResult = Failure("Failed to generate image")

\* C6: when the response's result item carries both url and b64_json, the
\* call returns {success: true, imageUrl: url} and imageData stays absent.
C6_UrlBeforeInline ==
    (/\ GenSuccessPath
     /\ genBody.kind = "object" /\ Len(genBody.items) > 0
     /\ Truthy(genBody.items[1].url) /\ Truthy(genBody.items[1].b64_json))
    => (/\ genResult.success
        /\ genResult.imageUrl = genBody.items[1].url
        /\ genResult.imageData = Absent)

C6_Witness ==
    /\ GenSuccessPath
    /\ Len(genBody.items) = 1
    /\ genBody.items[1].url = "https://img/1" /\ genBody.items[1].b64_json = "aGk="
    /\ genResult = UrlSuccess("https://img/1")

\* C7 as stated: a url at any position of the data array makes the call
\* return {success: true, imageUrl}; inline data is returned only when no
\* item has a url.
C7_AnyPositionUrl ==
    (GenSuccessPath /\ genBody.kind = "object")
    => LET hasUrl == \E i \in 1..Len(genBody.items) : Truthy(genBody.items[i].url)
       IN /\ hasUrl => (genResult.success /\ Truthy(genResult.imageUrl))
          /\ Truthy(genResult.imageData) => ~hasUrl

\* C7 amended: only the first item of the data array is read: its url is
\* returned when it has one, else its b64_json when it has one, else the
\* call fails; items after the first never change the result.
C7_FirstItemDecides ==
    (/\ GenSuccessPath
     /\ genBody.kind = "object" /\ Len(genBody.items) > 0 /\ ~genBody.items[1].isNull)
    => LET first == genBody.items[1]
       IN /\ Truthy(first.url) => genResult = UrlSuccess(first.url)
          /\ (~Truthy(first.url) /\ Truthy(first.b64_json))
               => genResult = DataSuccess(first.b64_json)
          /\ (~Truthy(first.url) /\ ~Truthy(first.b64_json))
               => genResult = Failure("No image data in response")

C7_Witness ==
    /\ GenSuccessPath
    /\ Len(genBody.items) = 2
    /\ ~genBody.items[1].isNull
    /\ ~Truthy(genBody.items[1].url) /\ Truthy(genBody.items[1].b64_json)
    /\ Truthy(genBody.items[2].url)
    /\ genResult = DataSuccess(genBody.items[1].b64_json)

SlashExtension(short, long) ==
    /\ Len(short) <= Len(long)
    /\ SubSeq(long, 1, Len(short)) = short
    /\ \A i \in (Len(short) + 1)..Len(long) : long[i] = "/"
DifferOnlyInTrailingSlashes(a, b) == SlashExtension(a, b) \/ SlashExtension(b, a)

\* C10: base URLs that differ only in their number of trailing slashes give
\* the same endpoint: the base without its trailing slashes followed by
\* /images/generations.
C10_EndpointIgnoresTrailingSlashes ==
    genFetchCount > 0 =>
      LET base == genOptions.baseUrl.chars
      IN /\ \E k \in 0..Len(base) :
              LET core == SubSeq(base, 1, k)
              IN /\ SlashExtension(core, base)
                 /\ (k = 0 \/ core[k] # "/")
                 /\ genRequest.endpoint = core \o GenerationsPath
         /\ \A other \in BaseUrlStrings :
              DifferOnlyInTrailingSlashes(base, other)
                => EndpointOf(other) = genRequest.endpoint

C10_Witness ==
    /\ genFetchCount > 0
    /\ genOptions.baseUrl.chars = <<"h", "/", "v", "/", "/">>
    /\ genRequest.endpoint = <<"h", "/", "v", "/images/generations">>

(***************************************************************************)
(* Properties of the wrappers.                                             *)
(***************************************************************************)
\* C18: a wrapper call is one generateImage call with the templated prompt,
\* the caller's apiKey and baseUrl, model dall-e-3, quality hd and size
\* 1024x1024 (avatar) or 1792x1024 (scene); a blank description is passed on
\* as it is, there is at most one request, and the wrapper returns the very
\* result generateImage returned.
C18_WrappersAreThin ==
    wrapPc # "idle" =>
      /\ genOptions =
           [present |-> TRUE,
            prompt |-> Str(IF wrapKind = "avatar"
                           THEN <<"Create a high-quality portrait illustration of: ">>
                                  \o wrapArgs.description
                                  \o <<". Professional digital art style, detailed facial features, appropriate for a character profile picture. Focus on the character's face and upper body.">>
                           ELSE <<"Illustrate this scene: ">>
                                  \o wrapArgs.description
                                  \o <<". High-quality digital art, detailed environment, atmospheric lighting, cinematic composition.">>),
            apiKey |-> wrapArgs.apiKey,
            baseUrl |-> wrapArgs.baseUrl,
            model |-> "dall-e-3",
            size |-> IF wrapKind = "avatar" THEN "1024x1024" ELSE "1792x1024",
            quality |-> "hd"]
      /\ genFetchCount <= 1
      /\ (genFetchCount = 1 =>
            /\ genRequest.model = "dall-e-3"
            /\ genRequest.quality = "hd"
            /\ genRequest.size = IF wrapKind = "avatar" THEN "1024x1024" ELSE "1792x1024")
      /\ (wrapPc = "awaitGenerate" => wrapResult = NoResult)
      /\ (wrapPc = "returned" => genPc = "returned" /\ wrapResult = genResult)
      /\ wrapPc # "raised"
C18_Witness ==
    /\ wrapPc = "returned"
    /\ wrapKind = "scene"
    /\ wrapArgs.description = <<" ">>
    /\ genRequest.size = "1792x1024"
    /\ genRequest.quality = "hd"
    /\ wrapResult = UrlSuccess("https://img/1")

(***************************************************************************)
(* Properties of the avatar generation flow.                               *)
(***************************************************************************)
\* C15: when generateImage returns a success that carries inline data and no
\* url, handleGenerate does not report a failure: it shows a success and an
\* image becomes available to the avatar flow.
C15_InlineSuccessBecomesAvatar ==
    [][(/\ modPc = "awaitGenerate" /\ modPc' = "idle"
        /\ genPc = "returned"
        /\ genResult.success
        /\ genResult.imageUrl = Absent
        /\ genResult.imageData # Absent)
         => /\ modToast'.type = "success"
            /\ (generatedImageUrl' # "" \/ avatarFile' # avatarFile)]_vars

\* C17: when the fetch inside imageUrlToFile is rejected, the call ends
\* there, handleUseImage shows "Failed to process generated image", no file
\* reaches the form's avatar and the modal stays as open as it was.
C17_FailedFetchCaughtByUseImage ==
    [][(usePc = "awaitFetch" /\ useResponse'.kind = "reject")
         => /\ usePc' = "idle"
            /\ modToast' = ErrorToast("Failed to process generated image")
            /\ avatarFile' = avatarFile
            /\ toast' = toast
            /\ modOpen' = modOpen]_vars
C17_Witness ==
    /\ usePc = "idle"
    /\ useResponse.kind = "reject"
    /\ modToast = ErrorToast("Failed to process generated image")
    /\ generatedImageUrl # ""
    /\ modOpen
    /\ avatarFile = NoFile

(***************************************************************************)
(* Properties of base64ToFile.                                             *)
(***************************************************************************)
\* C16: for every well-formed payload, with or without a
\* data:image/<type>;base64, prefix, base64ToFile returns without raising an
\* asset of type image/png whose bytes are the bytes the encoder was given.
C16_Base64RoundTrip ==
    b64Pc = "returned"
      => b64Result = [raised |-> FALSE, bytes |-> b64Bytes, type |-> "image/png"]

(***************************************************************************)
(* Properties of the PerformanceProvider.                                  *)
(***************************************************************************)
\* the effects of the last commit have run
PerfEffectsRun == perfPc = "idle" /\ ~persistPending
\* and no update is waiting for a render
PerfSettled ==
    /\ PerfEffectsRun
    /\ nextReducedMotion = reducedMotion
    /\ nextLowPowerMode = lowPowerMode

\* C21: once the provider's effects have run, the document root has the
\* reduce-motion class exactly when lowPowerMode or reducedMotion is true.
C21_ClassFollowsModes ==
    PerfEffectsRun => (rootClass <=> (lowPowerMode \/ reducedMotion))
C21_Witness ==
    /\ PerfSettled
    /\ ~perfFresh
    /\ reducedMotion /\ ~lowPowerMode
    /\ rootClass

\* C22: after a mount has settled the provider holds the values the earlier
\* session left in localStorage, and the mount sequence never replaces a
\* stored item by another value.
C22_PreferenceSurvivesMount ==
    /\ []((PerfSettled /\ perfFresh)
            => /\ (perfSaved.lowPowerMode # NoItem
                     => lowPowerMode = (perfSaved.lowPowerMode = "true"))
               /\ (perfSaved.reducedMotion # NoItem
                     => reducedMotion = (perfSaved.reducedMotion = "true")))
    /\ [][(perfPc = "rendered" /\ perfPc' = "idle")
            => /\ (lsLowPowerMode # NoItem => lsLowPowerMode' = lsLowPowerMode)
               /\ (lsReducedMotion # NoItem => lsReducedMotion' = lsReducedMotion)]_vars

\* C23: when the system reports prefers-reduced-motion: reduce at mount and
\* nothing is set afterwards, reducedMotion is true once the mount has
\* settled, in a first session and in every later one.
C23_SystemPreferenceRespected ==
    (PerfSettled /\ perfFresh /\ systemPrefersReduced) => reducedMotion

(***************************************************************************)
(* Properties of the image generation modal across openings.               *)
(***************************************************************************)
\* C27: a result of generateImage that arrives after the modal was closed
\* and opened again does not set the preview of the new opening and does
\* not show a success message.
C27_NoResultAcrossOpenings ==
    [][(modPc = "awaitGenerate" /\ modPc' = "idle" /\ modStale)
         => /\ generatedImageUrl' = generatedImageUrl
            /\ (modToast' # modToast => modToast'.type # "success")]_vars

\* C28: isGenerating is true exactly while a generateImage call of the
\* modal is in flight, and a call is started only when none is in flight
\* and isGenerating is false.
C28_OneGenerationInFlight ==
    /\ [](/\ isGenerating <=> (modPc = "awaitGenerate")
          /\ (modPc = "awaitGenerate") <=> (genPc # "idle"))
    /\ [][(/\ genPc' = "awaitFetch"
           /\ genFetchCount' = 1
           /\ (genPc # "awaitFetch" \/ genOptions' # genOptions))
            => (~isGenerating /\ genPc = "idle")]_vars
C28_Witness ==
    /\ modOpen
    /\ isGenerating
    /\ genPc = "awaitBody"
    /\ Trim(prompt) # <<>>

(***************************************************************************)
(* Properties of ChatImageGenerator.                                       *)
(***************************************************************************)
\* C30: every onImageGenerate call is made while isGenerating is false, with
\* a prompt that is not blank and is the trimmed text of the input, and it
\* leaves the input hidden and the prompt cleared.
C30_GenerateOnlyWhenIdle ==
    chatCall.made
      => /\ ~chatCall.isGenerating
         /\ chatCall.prompt # <<>>
         /\ ~BlankInput(chatCall.prompt)
         /\ chatCall.prompt[1] # " "
         /\ chatCall.prompt[Len(chatCall.prompt)] # " "
         /\ ~showPromptInput
         /\ imagePrompt = <<>>

(***************************************************************************)
(* Properties of the avatar preview.                                       *)
(***************************************************************************)
\* C29: once no file read is pending, the preview is the data URL of the
\* current avatarFile, and there is no preview when avatarFile is null.
C29_PreviewMatchesAvatarFile ==
    pendingReads = {}
      => avatarPreview = (IF avatarFile = NoFile THEN NoPreview
                          ELSE <<"data:", avatarFile>>)

(***************************************************************************)
(* Properties of the end of a submission.                                  *)
(***************************************************************************)
\* C24: a timer for onCreate/onClose is scheduled only by the step that
\* completes a submission whose record write and, with an avatar, blob
\* write succeeded, together with the success message; a rejected or failed
\* submission schedules nothing and shows an error; a timer runs once and
\* invokes onCreate and then onClose.
C24_CallbacksOnlyAfterSuccess ==
    [][/\ (closeTimers' > closeTimers
             => /\ closeTimers' = closeTimers + 1
                /\ subPc \in {"awaitCreate", "awaitSetBlob"}
                /\ subPc' = "idle"
                /\ toast' = [message |-> "Character created successfully!",
                             type |-> "success"]
                /\ \E i \in 1..Len(records') : records'[i].id = subId
                /\ (subAvatar # NoFile
                      => \E b \in blobs' : b.key = subImagePath /\ b.bytes = subAvatar))
       /\ ((subPc' = "idle" /\ toast' # toast /\ toast'.type # "success")
             => /\ toast'.type = "error"
                /\ closeTimers' = closeTimers
                /\ invoked' = invoked)
       /\ ((closeTimers' < closeTimers \/ invoked' # invoked)
             => /\ closeTimers' = closeTimers - 1
                /\ invoked' = <<"onCreate", "onClose">>
                /\ toast' = toast)]_vars
C24_Witness ==
    /\ invoked = <<"onCreate", "onClose">>
    /\ closeTimers = 0
    /\ Len(records) = 1
    /\ toast = SuccessToast("Character created successfully!")

\* C25: once a submission has succeeded in an opening of the form, no
\* further submission is accepted in that opening while its timer is
\* pending.
C25_OneCreationPerOpening ==
    [][(formOpen /\ openingCreated /\ closeTimers > 0)
         => ~(subPc = "idle" /\ subPc' # "idle")]_vars

\* C26: isLoading is true exactly while a submission that passed validation
\* has not finished its writes, and every such submission ends, whatever
\* the outcome of its writes, with isLoading false.
C26_LoadingAlwaysReset ==
    /\ [](isLoading <=> (subPc # "idle"))
    /\ (isLoading ~> ~isLoading)
C26_Witness ==
    /\ ~isLoading
    /\ subPc = "idle"
    /\ toast = ErrorToast("Failed to create character")
    /\ Len(records) = 1
    /\ blobs = {}
    /\ avatarFile # NoFile

====
